---- MODULE Spec2Model ----
(***************************************************************************)
(* State machine of the RAG PDF question answering service (src/main.py):  *)
(* the module-level Session slot (qa_chain, current_document_info) and the *)
(* upload_pdf, ask_question and reset_system handlers that read and write  *)
(* it.  Handlers are coroutines on one event loop: a handler runs without  *)
(* interruption between its await points, and the only await of the three  *)
(* handlers is upload_pdf's `await file.read()`.                           *)
(***************************************************************************)
EXTENDS Integers, Sequences, FiniteSets, TLC

VARIABLES
    embeddings,             \* TRUE: the embeddings model loaded; FALSE: it is None
    groq_api_key,           \* TRUE: os.getenv("GROQ_API_KEY") is a non-empty string
    qa_chain,               \* None, or the RetrievalQA chain over one upload's index
    current_document_info,  \* None, or the metadata dict of one upload
    pc,                     \* per upload request: "idle", "reading" (at the await), "done"
    upfile,                 \* per upload request: the file it carries
    tmp_files,              \* the temporary files that exist, named by their request
    response,               \* the response of the handler that returned last
    last_success,           \* history: the upload that returned 200 last (0: none yet)
    reset_since             \* history: a reset returned and no upload returned 200 since

vars == <<embeddings, groq_api_key, qa_chain, current_document_info, pc, upfile,
          tmp_files, response, last_success, reset_since>>

session == <<qa_chain, current_document_info>>

(***************************************************************************)
(* Bounds and program constants.                                           *)
(***************************************************************************)
MaxUploads == 2

chunk_size == 500
chunk_overlap == 50
RetrieverK == 4
PreviewLen == 200

Uploads == 1..MaxUploads

\* Python's None.  Every other value of the slots is a record too, so that
\* equality with None is always defined.
None == [type |-> "NoneType"]

Min(a, b) == IF a < b THEN a ELSE b

(***************************************************************************)
(* Strings are sequences of one-character strings.                         *)
(***************************************************************************)
Whitespace == {" ", "\t", "\n"}

\* str.lower() on the characters that occur in the filenames below.
LowerChar(c) ==
    CASE c = "P" -> "p"
      [] c = "D" -> "d"
      [] c = "F" -> "f"
      [] c = "B" -> "b"
      [] OTHER -> c

lower(s) == [i \in 1..Len(s) |-> LowerChar(s[i])]

endswith(s, suffix) ==
    /\ Len(s) >= Len(suffix)
    /\ SubSeq(s, Len(s) - Len(suffix) + 1, Len(s)) = suffix

RECURSIVE lstrip(_)
lstrip(s) ==
    IF s # <<>> /\ Head(s) \in Whitespace THEN lstrip(Tail(s)) ELSE s

RECURSIVE rstrip(_)
rstrip(s) ==
    IF s # <<>> /\ s[Len(s)] \in Whitespace
    THEN rstrip(SubSeq(s, 1, Len(s) - 1))
    ELSE s

strip(s) == rstrip(lstrip(s))

DotPdf == <<".", "p", "d", "f">>
Ellipsis == <<".", ".", ".">>

(***************************************************************************)
(* The inputs.  A file is its name and the length of the text the loader   *)
(* extracts from each of its pages; the character at position j of page p  *)
(* of file f is the number Char(f, p, j), so texts of different files and  *)
(* of different places of one file differ.                                 *)
(***************************************************************************)
Files == {
    [id |-> 1, filename |-> <<"n", ".", "t", "x", "t">>, pages |-> <<120>>],
    [id |-> 2, filename |-> <<"e", ".", "p", "d", "f">>, pages |-> <<>>],
    [id |-> 3, filename |-> <<"s", ".", "p", "d", "f">>, pages |-> <<0>>],
    [id |-> 4, filename |-> <<"a", ".", "p", "d", "f">>, pages |-> <<200, 201>>],
    [id |-> 5, filename |-> <<"B", ".", "P", "D", "F">>, pages |-> <<600, 1, 950>>] }

NoFile == [id |-> 0, filename |-> <<>>, pages |-> <<>>]

Questions == { <<" ", "\t">>, <<" ", "Q", "?", "\n">> }

Char(f, p, j) == f * 100000 + p * 1000 + j


(***************************************************************************)
(* The library calls of upload_pdf.  A Document is the place of its text   *)
(* (file, page, from, to) and its page number; page_content is the text at *)
(* that place.                                                             *)
(***************************************************************************)
page_content(d) ==
    [j \in 1..(d.to - d.from + 1) |-> Char(d.file, d.page + 1, d.from + j - 1)]

\* len(doc.page_content)
page_content_len(d) == d.to - d.from + 1

\* PyPDFLoader(pdf_path).load(): one Document per page, metadata page from 0.
PyPDFLoader_load(file) ==
    [p \in 1..Len(file.pages) |->
        [file |-> file.id, page |-> p - 1, from |-> 1, to |-> file.pages[p]]]

\* RecursiveCharacterTextSplitter on a text without separators: pieces of
\* chunk_size characters, each starting chunk_overlap characters before the
\* end of the one before; an empty text gives no piece.
RECURSIVE split_text(_, _)
split_text(start, length) ==
    IF length = 0 THEN <<>>
    ELSE IF length - start + 1 <= chunk_size THEN << <<start, length>> >>
    ELSE << <<start, start + chunk_size - 1>> >>
         \o split_text(start + chunk_size - chunk_overlap, length)

RECURSIVE split_documents(_)
split_documents(documents) ==
    IF documents = <<>> THEN <<>>
    ELSE LET d == Head(documents)
             pieces == split_text(1, d.to)
         IN [i \in 1..Len(pieces) |->
                [file |-> d.file, page |-> d.page,
                 from |-> pieces[i][1], to |-> pieces[i][2]]]
            \o split_documents(Tail(documents))

RECURSIVE total_characters(_)
total_characters(docs) ==
    IF docs = <<>> THEN 0
    ELSE page_content_len(Head(docs)) + total_characters(Tail(docs))

\* Exceptions.  str(e) is kept as the sequence of the message's parts.
HTTPException(status_code, detail) ==
    [type |-> "HTTPException", status_code |-> status_code, detail |-> detail]

Exception(message) ==
    [type |-> "Exception", status_code |-> 0, detail |-> <<message>>]

str(e) == e.detail

\* What can go wrong outside the handler's own checks.
Faults == {"none", "read", "write", "load", "embed", "unlink"}

(***************************************************************************)
(* upload_pdf, first part: the checks and the creation of the temporary    *)
(* file, up to `await file.read()`.                                        *)
(***************************************************************************)
is_pdf(filename) == endswith(lower(filename), DotPdf)

\* Mutant: the metadata is stored before the await, the chain after it.
upload_pdf_begin_session_info_first(u, file) ==
    [qa_chain |-> qa_chain,
     current_document_info |->
        IF is_pdf(file.filename) /\ embeddings
        THEN [type |-> "dict", upload |-> u, filename |-> file.filename,
              num_pages |-> 0, num_chunks |-> 0, total_characters |-> 0]
        ELSE current_document_info]

\* The Session after the first part: nothing is assigned before the await.
upload_pdf_begin_session(u, file) ==
    [qa_chain |-> qa_chain, current_document_info |-> current_document_info]

upload_pdf_begin(u, file) ==
    IF ~is_pdf(file.filename)
    THEN [returned |-> TRUE, temp_file |-> FALSE,
          response |-> [kind |-> "upload", req |-> u, status |-> 400,
                        detail |-> <<"Only PDF files are allowed">>]]
    ELSE IF ~embeddings
    THEN [returned |-> TRUE, temp_file |-> FALSE,
          response |-> [kind |-> "upload", req |-> u, status |-> 500,
                        detail |-> <<"Embeddings model not loaded. Please restart the server.">>]]
    ELSE [returned |-> FALSE, temp_file |-> TRUE, response |-> response]

(***************************************************************************)
(* upload_pdf, second part: the body of the try block from the return of   *)
(* the await to the return statement or to the exception it raises.        *)
(***************************************************************************)
new_qa_chain(u, docs) ==
    [type |-> "RetrievalQA", upload |-> u, docs |-> docs]

new_document_info(u, file, documents, docs) ==
    [type |-> "dict", upload |-> u,
     filename |-> file.filename,
     num_pages |-> Len(documents),
     num_chunks |-> Len(docs),
     total_characters |-> total_characters(docs)]

NoContentDetail == <<"No content found in the PDF file">>

upload_pdf_try(u, file, fault) ==
    LET documents == PyPDFLoader_load(file)
        docs == split_documents(documents)
        Raise(e, bound) ==
            [raised |-> e, pdf_path |-> bound, unlinked |-> FALSE,
             qa_chain |-> qa_chain,
             current_document_info |-> current_document_info]
    IN  IF fault = "read" THEN Raise(Exception("reading the upload failed"), FALSE)
        ELSE IF fault = "write" THEN Raise(Exception("writing the temporary file failed"), FALSE)
        ELSE IF fault = "load" THEN Raise(Exception("the PDF cannot be parsed"), TRUE)
        ELSE IF documents = <<>>
        THEN Raise(HTTPException(400, NoContentDetail), TRUE)
        ELSE IF docs = <<>> THEN Raise(Exception("list index out of range"), TRUE)
        ELSE IF fault = "embed" THEN Raise(Exception("embedding failed"), TRUE)
        ELSE IF ~groq_api_key
        THEN Raise(HTTPException(500, <<"GROQ_API_KEY environment variable not set">>), TRUE)
        ELSE IF fault = "unlink"
        THEN [raised |-> Exception("unlink failed"), pdf_path |-> TRUE, unlinked |-> FALSE,
              qa_chain |-> new_qa_chain(u, docs),
              current_document_info |-> new_document_info(u, file, documents, docs)]
        ELSE [raised |-> None, pdf_path |-> TRUE, unlinked |-> TRUE,
              qa_chain |-> new_qa_chain(u, docs),
              current_document_info |-> new_document_info(u, file, documents, docs)]

\* The whole second part: the try body and the except clause.  retry is the
\* outcome of the except clause's own os.unlink, whose failure it swallows.
upload_pdf_resume(u, file, fault, retry) ==
    LET t == upload_pdf_try(u, file, fault)
    IN  IF t.raised = None
        THEN [qa_chain |-> t.qa_chain,
              current_document_info |-> t.current_document_info,
              temp_file |-> ~t.unlinked,
              response |-> [kind |-> "upload", req |-> u, status |-> 200,
                            document_info |-> t.current_document_info]]
        ELSE [qa_chain |-> t.qa_chain,
              current_document_info |-> t.current_document_info,
              temp_file |-> ~(t.pdf_path /\ retry),
              response |-> [kind |-> "upload", req |-> u, status |-> 500,
                            detail |-> <<"Error processing PDF: ">> \o str(t.raised)]]

(***************************************************************************)
(* ask_question.                                                           *)
(***************************************************************************)
\* `doc.page_content[:200] + "..." if len(doc.page_content) > 200 else
\* doc.page_content`: the conditional binds weaker than +.
\* Mutant: the conditional read as binding tighter than +.
content_preview_misparsed(doc) ==
    SubSeq(page_content(doc), 1, PreviewLen)
    \o (IF page_content_len(doc) > PreviewLen THEN Ellipsis ELSE page_content(doc))

content_preview(doc) ==
    IF page_content_len(doc) > PreviewLen
    THEN SubSeq(page_content(doc), 1, PreviewLen) \o Ellipsis
    ELSE page_content(doc)

\* The retriever of the chain: order is the index's documents by ascending
\* distance to the question (the embedding decides it), of which the
\* retriever returns the first k, or all of them when there are fewer.
retrieve(chain, order) ==
    [i \in 1..Min(RetrieverK, Len(chain.docs)) |-> chain.docs[order[i]]]

\* Mutant: the check left out.
not_ready_unchecked(chain) == FALSE

\* `if not qa_chain`
not_ready(chain) == chain = None

\* qa_chain({"query": question}): one call of the chain, which retrieves
\* and then asks the LLM; chain_ok is whether both went through.
invoke_chain(chain, order, chain_ok) ==
    IF chain = None
    THEN [raised |-> Exception("'NoneType' object is not callable"),
          calls |-> 0, source_documents |-> <<>>]
    ELSE IF ~chain_ok
    THEN [raised |-> Exception("the chain failed"),
          calls |-> 1, source_documents |-> <<>>]
    ELSE [raised |-> None, calls |-> 1, source_documents |-> retrieve(chain, order)]

sources_of(source_docs) ==
    [i \in 1..Len(source_docs) |->
        [chunk_id |-> i,
         page |-> source_docs[i].page,
         content_preview |-> content_preview(source_docs[i])]]

\* Mutant: a failed ask drops the Session.
ask_question_session_dropped_on_error(status) ==
    IF status = 500
    THEN [qa_chain |-> None, current_document_info |-> None]
    ELSE [qa_chain |-> qa_chain, current_document_info |-> current_document_info]

\* The Session after ask_question: the handler declares no global and
\* assigns neither slot, whatever it returns.
ask_question_session(status) ==
    [qa_chain |-> qa_chain, current_document_info |-> current_document_info]

NotReadyDetail ==
    <<"No PDF document has been uploaded and processed. Please upload a PDF first.">>

\* The response of ask_question.  chain_calls, chain and source_documents
\* (and question, in an error response) are not part of the JSON body: they
\* record what the handler did.
ask_question(question, order, chain_ok) ==
    IF not_ready(qa_chain)
    THEN [kind |-> "ask", status |-> 400, chain_calls |-> 0, question |-> question,
          detail |-> NotReadyDetail]
    ELSE IF strip(question) = <<>>
    THEN [kind |-> "ask", status |-> 400, chain_calls |-> 0, question |-> question,
          detail |-> <<"Question cannot be empty">>]
    ELSE LET result == invoke_chain(qa_chain, order, chain_ok)
         IN  IF result.raised # None
             THEN [kind |-> "ask", status |-> 500, chain_calls |-> result.calls,
                   question |-> question,
                   detail |-> <<"Error processing question: ">> \o str(result.raised)]
             ELSE LET sources == sources_of(result.source_documents)
                  IN  [kind |-> "ask", status |-> 200, chain_calls |-> result.calls,
                       question |-> question,
                       answer |-> "answer",
                       document_info |-> current_document_info,
                       sources |-> sources,
                       num_sources |-> Len(sources),
                       chain |-> qa_chain.upload,
                       source_documents |-> result.source_documents]

(***************************************************************************)
(* reset_system.                                                           *)
(***************************************************************************)
\* Mutant: the metadata is not cleared.
reset_system_keeps_info ==
    [qa_chain |-> None, current_document_info |-> current_document_info,
     response |-> [kind |-> "reset", status |-> 200,
                   message |-> <<"System reset successfully. You can now upload a new PDF.">>]]

reset_system ==
    [qa_chain |-> None, current_document_info |-> None,
     response |-> [kind |-> "reset", status |-> 200,
                   message |-> <<"System reset successfully. You can now upload a new PDF.">>]]

(***************************************************************************)
(* /health and /status/.                                                   *)
(***************************************************************************)
health_check ==
    [status |-> "healthy",
     embeddings_loaded |-> embeddings,
     document_processed |-> qa_chain # None]

get_status ==
    [system_ready |-> qa_chain # None,
     embeddings_loaded |-> embeddings,
     current_document |-> current_document_info,
     groq_api_configured |-> groq_api_key]

(***************************************************************************)
(* The state machine.                                                      *)
(***************************************************************************)
NoResponse == [kind |-> "none", status |-> 0]

NoUpload == [upload |-> 0, file |-> 0]

\* The orders the retriever is tried with: the index's documents as they
\* are and rotated by one place, and the reverse of both.
Rotations(n) == { r \in {0, 1} : r < n }

Orders(n) ==
    { [i \in 1..n |-> ((i + r - 1) % n) + 1] : r \in Rotations(n) }
    \cup { [i \in 1..n |-> n - ((i + r - 1) % n)] : r \in Rotations(n) }
    \cup { [i \in 1..n |-> i] }

\* The number of documents in the current index.
index_size == IF qa_chain = None THEN 0 ELSE Len(qa_chain.docs)

Init ==
    /\ embeddings \in BOOLEAN
    /\ groq_api_key \in BOOLEAN
    /\ qa_chain = None
    /\ current_document_info = None
    /\ pc = [u \in Uploads |-> "idle"]
    /\ upfile = [u \in Uploads |-> NoFile]
    /\ tmp_files = {}
    /\ response = NoResponse
    /\ last_success = NoUpload
    /\ reset_since = FALSE

\* A new upload request runs to its first return or to its await.
UploadStart(u, file) ==
    /\ pc[u] = "idle"
    /\ IF u = 1 THEN TRUE ELSE pc[u - 1] # "idle"
    /\ LET b == upload_pdf_begin(u, file)
           s == upload_pdf_begin_session(u, file)
       IN  /\ pc' = [pc EXCEPT ![u] = IF b.returned THEN "done" ELSE "reading"]
           /\ upfile' = [upfile EXCEPT ![u] = IF b.returned THEN NoFile ELSE file]
           /\ tmp_files' = IF b.temp_file THEN tmp_files \cup {u} ELSE tmp_files
           /\ response' = b.response
           /\ qa_chain' = s.qa_chain
           /\ current_document_info' = s.current_document_info
    /\ UNCHANGED <<embeddings, groq_api_key, last_success, reset_since>>

\* An upload request at its await runs to its return.
UploadResume(u, fault, retry) ==
    /\ pc[u] = "reading"
    /\ LET r == upload_pdf_resume(u, upfile[u], fault, retry)
       IN  /\ qa_chain' = r.qa_chain
           /\ current_document_info' = r.current_document_info
           /\ tmp_files' = IF r.temp_file THEN tmp_files ELSE tmp_files \ {u}
           /\ response' = r.response
           /\ last_success' = IF r.response.status = 200
                              THEN [upload |-> u, file |-> upfile[u].id]
                              ELSE last_success
           /\ reset_since' = IF r.response.status = 200 THEN FALSE ELSE reset_since
    /\ pc' = [pc EXCEPT ![u] = "done"]
    /\ upfile' = [upfile EXCEPT ![u] = NoFile]
    /\ UNCHANGED <<embeddings, groq_api_key>>

\* An ask request runs from its entry to its return; order is the order the
\* retriever finds for the question.
Ask(question, chain_ok) ==
    /\ \E order \in Orders(index_size) :
          response' = ask_question(question, order, chain_ok)
    /\ LET s == ask_question_session(response'.status)
       IN  /\ qa_chain' = s.qa_chain
           /\ current_document_info' = s.current_document_info
    /\ UNCHANGED <<embeddings, groq_api_key, pc, upfile, tmp_files, last_success,
                   reset_since>>

Reset ==
    /\ qa_chain' = reset_system.qa_chain
    /\ current_document_info' = reset_system.current_document_info
    /\ response' = reset_system.response
    /\ reset_since' = TRUE
    /\ UNCHANGED <<embeddings, groq_api_key, pc, upfile, tmp_files, last_success>>

Next ==
    \/ \E u \in Uploads, file \in Files : UploadStart(u, file)
    \/ \E u \in Uploads, fault \in Faults, retry \in BOOLEAN : UploadResume(u, fault, retry)
    \/ \E question \in Questions, chain_ok \in BOOLEAN : Ask(question, chain_ok)
    \/ Reset

Spec == Init /\ [][Next]_vars

(***************************************************************************)
(* Properties.                                                             *)
(***************************************************************************)
EMPTY == qa_chain = None /\ current_document_info = None

READY == qa_chain # None /\ current_document_info # None

\* The step is the return of an ask_question.
AskReturns == response' # response /\ response'.kind = "ask"

FileById(id) == CHOOSE f \in Files : f.id = id

\* The chunks of a file: what upload_pdf indexes of it.
ChunksOf(id) == split_documents(PyPDFLoader_load(FileById(id)))

Range(seq) == { seq[i] : i \in 1..Len(seq) }

\* C1: the Session starts EMPTY, and an ask issued while the Session is
\* EMPTY returns 400 with the not-ready message without a call of the
\* chain, and leaves qa_chain and current_document_info as they were,
\* whatever the question is.
C1_AskWhileEmpty ==
    /\ EMPTY
    /\ [][(EMPTY /\ AskReturns) =>
            /\ response'.status = 400
            /\ response'.detail = NotReadyDetail
            /\ response'.chain_calls = 0
            /\ EMPTY']_vars

C1_Witness ==
    /\ EMPTY
    /\ response.kind = "ask"
    /\ response.status = 400
    /\ strip(response.question) # <<>>

\* C2: after reset_system returns the Session is EMPTY, and every ask that
\* returns after a reset and before the next upload that returns 200 fails
\* with 400 and the not-ready message.
C2_ResetYieldsEmpty ==
    /\ response.kind = "reset" => EMPTY
    /\ (reset_since /\ response.kind = "ask") =>
            /\ response.status = 400
            /\ response.detail = NotReadyDetail

\* C3: after an upload returns 200 the chain and the metadata are those of
\* that upload, and every ask that returns 200 has its sources drawn from
\* the chunks of the file of the upload that returned 200 last.
C3_UploadReplaces ==
    /\ (response.kind = "upload" /\ response.status = 200) =>
            /\ READY
            /\ qa_chain.upload = response.req
            /\ current_document_info.upload = response.req
    /\ (response.kind = "ask" /\ response.status = 200) =>
            /\ last_success.upload # 0
            /\ \A i \in 1..Len(response.sources) :
                  \E chunk \in Range(ChunksOf(last_success.file)) :
                     /\ response.source_documents[i] = chunk
                     /\ response.sources[i].content_preview = content_preview(chunk)

\* C4: an upload that returns an error response leaves qa_chain and
\* current_document_info as they were before the request.
C4_FailedUploadAtomic ==
    [][(response' # response /\ response'.kind = "upload" /\ response'.status # 200) =>
            /\ qa_chain' = qa_chain
            /\ current_document_info' = current_document_info]_vars

\* C5: an upload from which the loader extracts no content is answered
\* with status 400.
C5_NoContentIs400 ==
    (response.kind = "upload" /\ response.status # 200
        /\ NoContentDetail[1] \in Range(response.detail))
    => response.status = 400

\* C6: when an upload request has returned, the temporary file it created
\* no longer exists.
C6_NoTempFileLeft ==
    \A u \in Uploads : pc[u] = "done" => u \notin tmp_files

\* C7: an ask that returns 200 has min(4, num_chunks) sources, numbered
\* from 1 in the order the retriever returned them, and each preview is
\* the whole chunk text when that has at most 200 characters and else its
\* first 200 characters followed by "...", so at most 203 characters.
C7_SourcesAndPreviews ==
    (response.kind = "ask" /\ response.status = 200) =>
        LET n == response.num_sources
            k == response.document_info.num_chunks
        IN  /\ n = IF k < 4 THEN k ELSE 4
            /\ Len(response.sources) = n
            /\ Len(response.source_documents) = n
            /\ \A i \in 1..n :
                  LET text == page_content(response.source_documents[i])
                      preview == response.sources[i].content_preview
                  IN  /\ response.sources[i].chunk_id = i
                      /\ Len(text) <= 200 => preview = text
                      /\ Len(text) > 200 =>
                            /\ Len(preview) = 203
                            /\ SubSeq(preview, 1, 200) = SubSeq(text, 1, 200)
                            /\ SubSeq(preview, 201, 203) = <<".", ".", ".">>
                      /\ Len(preview) <= 203

C7_Witness ==
    /\ response.kind = "ask"
    /\ response.status = 200
    /\ response.num_sources = 2
    /\ \E i, j \in 1..2 :
          /\ Len(response.sources[i].content_preview) = 200
          /\ Len(response.sources[j].content_preview) = 203

\* C8: whatever an ask returns, qa_chain and current_document_info are
\* after it what they were before it, and the ask has called the chain at
\* most once: not at all when it returns 400, once when it returns 500
\* from a READY Session.
C8_AskReadOnly ==
    [][AskReturns =>
            /\ qa_chain' = qa_chain
            /\ current_document_info' = current_document_info
            /\ response'.chain_calls <= 1
            /\ response'.status = 400 => response'.chain_calls = 0
            /\ (response'.status = 500 /\ READY) => (READY' /\ response'.chain_calls = 1)]_vars

C8_Witness ==
    /\ response.kind = "ask"
    /\ response.status = 500
    /\ READY

\* C9: qa_chain is None exactly when current_document_info is None, so
\* /health's document_processed, /status/'s system_ready and the presence
\* of /status/'s current_document agree.
C9_SlotsAgree ==
    /\ (qa_chain = None) <=> (current_document_info = None)
    /\ health_check.document_processed = get_status.system_ready
    /\ get_status.system_ready <=> (get_status.current_document # None)

C9_Witness ==
    /\ READY
    /\ response.kind = "upload"
    /\ response.status = 500

\* C10: under every interleaving of the handlers, the document_info of an
\* ask that returns 200 is the metadata of the upload whose index gave the
\* ask its sources, and the Session never holds the chain of one upload
\* with the metadata of another.
C10_NoHalfReplacedSession ==
    /\ (qa_chain = None) <=> (current_document_info = None)
    /\ qa_chain # None =>
            /\ current_document_info.upload = qa_chain.upload
            /\ current_document_info.num_chunks = Len(qa_chain.docs)
            /\ current_document_info.total_characters = total_characters(qa_chain.docs)
    /\ (response.kind = "ask" /\ response.status = 200) =>
            /\ response.document_info.upload = response.chain
            /\ \A d \in Range(response.source_documents) :
                  /\ FileById(d.file).filename = response.document_info.filename
                  /\ d \in Range(ChunksOf(d.file))
                  /\ Len(ChunksOf(d.file)) = response.document_info.num_chunks

C10_Witness ==
    /\ response.kind = "ask"
    /\ response.status = 200
    /\ \E u \in Uploads :
          /\ pc[u] = "reading"
          /\ u < response.chain
          /\ upfile[u].id # response.source_documents[1].file

====
